---- MODULE Spec2Model ----
(***************************************************************************)
(* Model of the deployment assembly of vox-movearound: the configuration   *)
(* merge and stack assembly of infrastructure/app.py, the naming and       *)
(* tagging of infrastructure/stacks/base_stack.py, the tag policy          *)
(* validator of scripts/validate_tags.py, and the request-time authorizer  *)
(* of lambdas/authorizer/handler.py with layers/common.                    *)
(*                                                                         *)
(* A Python str is a sequence of one-character strings, so that slicing,   *)
(* joining, formatting and parsing are computed character by character.    *)
(* A Python dict is a function whose DOMAIN is its key set; dictionary     *)
(* keys are written as TLA+ strings.                                       *)
(***************************************************************************)
EXTENDS Integers, Sequences, FiniteSets, TLC

VARIABLES
    env,             \* app.py: os.getenv("ENVIRONMENT", "dev")
    default_config,  \* app.py: defaults.yaml as loaded
    env_config,      \* app.py: environments/<env>.yaml as loaded
    config,          \* app.py: the merged configuration (NoValue before the merge)
    pc,              \* position of the running program
    error,           \* the exception that ended the run ("none" while running)
    constructed,     \* stacks whose aws_cdk Stack constructor has run, in order
    self,            \* stack -> the attributes BaseStack.__init__ has assigned
    stackTags,       \* stack -> the tags attached to it by Tags.of(self).add
    resourceNames,   \* stack -> the resource names derived by get_resource_name
    dependencies,    \* registered dependency edges <<dependent, dependency>>
    order,           \* the stacks emitted by synthesis, in emission order
    specs,           \* graph builder input: declared edges still to register
    validated,       \* validate_tags calls made so far: {[caller, tags, errors, raised]}
    vtags,           \* the tag mapping handed to validate_tags
    exitCode,        \* validate_tags.py main(): its return value (-1 before)
    names,           \* get_resource_name calls made so far: {[args.., name]}
    unitState,       \* unit -> "Declared" | "Resolved" | "Ordered"
    event,           \* authorizer: the request handed to lambda_handler
    jwt_accepts,     \* the tokens jwt.decode verifies: {[token, payload]}
    jwt_rejects,     \* the exception jwt.decode raises for every other token
    validate_calls,  \* the arguments of the validate_token calls made, in order
    policies,        \* the create_policy calls made, in order: [args.., policy]
    result,          \* what lambda_handler returned or raised (NoValue before)
    log              \* the lines lambda_handler printed

vars == <<env, default_config, env_config, config, pc, error, constructed, self,
          stackTags, resourceNames, dependencies, order, specs, validated, vtags,
          exitCode, names, unitState, event, jwt_accepts, jwt_rejects,
          validate_calls, policies, result, log>>

NoValue == [none |-> TRUE]

(***************************************************************************)
(* Python str and dict helpers                                             *)
(***************************************************************************)
EmptyDict == [k \in {} |-> NoValue]

\* d[key] = value on a dict (insert or overwrite)
DictSet(d, key, value) ==
    [k \in DOMAIN d \cup {key} |-> IF k = key THEN value ELSE d[k]]

\* d.get(key, default)
DictGet(d, key, default) == IF key \in DOMAIN d THEN d[key] ELSE default

\* s[:n] for n >= 0
Slice(s, n) == SubSeq(s, 1, IF Len(s) < n THEN Len(s) ELSE n)

Dash == <<"-">>

\* "-".join(parts)
RECURSIVE JoinDash(_)
JoinDash(parts) ==
    IF Len(parts) = 0 THEN <<>>
    ELSE IF Len(parts) = 1 THEN parts[1]
    ELSE parts[1] \o Dash \o JoinDash(Tail(parts))

DigitChars == <<"0", "1", "2", "3", "4", "5", "6", "7", "8", "9">>

IsDigit(c) == \E i \in 1..10 : DigitChars[i] = c

DigitVal(c) == (CHOOSE i \in 1..10 : DigitChars[i] = c) - 1

DigitChar(n) == DigitChars[n + 1]

(***************************************************************************)
(* String literals of the sources and of the inputs drawn below            *)
(***************************************************************************)
S_dev == <<"d", "e", "v">>
S_stg == <<"s", "t", "g">>
S_prd == <<"p", "r", "d">>
S_qa == <<"q", "a">>

S_us_east_1 == <<"u", "s", "-", "e", "a", "s", "t", "-", "1">>
S_us_west_2 == <<"u", "s", "-", "w", "e", "s", "t", "-", "2">>
S_eu_west_1 == <<"e", "u", "-", "w", "e", "s", "t", "-", "1">>
S_eu_central_1 == <<"e", "u", "-", "c", "e", "n", "t", "r", "a", "l", "-", "1">>
S_ap_southeast_1 ==
    <<"a", "p", "-", "s", "o", "u", "t", "h", "e", "a", "s", "t", "-", "1">>
S_sa_east_1 == <<"s", "a", "-", "e", "a", "s", "t", "-", "1">>
S_us_east_2 == <<"u", "s", "-", "e", "a", "s", "t", "-", "2">>
S_eu == <<"e", "u">>

S_use1 == <<"u", "s", "e", "1">>
S_usw2 == <<"u", "s", "w", "2">>
S_euw1 == <<"e", "u", "w", "1">>
S_euc1 == <<"e", "u", "c", "1">>
S_apse1 == <<"a", "p", "s", "e", "1">>

S_cdk == <<"c", "d", "k">>
S_internal == <<"i", "n", "t", "e", "r", "n", "a", "l">>
S_public == <<"p", "u", "b", "l", "i", "c">>
S_confidential == <<"c", "o", "n", "f", "i", "d", "e", "n", "t", "i", "a", "l">>
S_restricted == <<"r", "e", "s", "t", "r", "i", "c", "t", "e", "d">>
S_top_secret == <<"t", "o", "p", "-", "s", "e", "c", "r", "e", "t">>
S_99_9 == <<"9", "9", ".", "9">>
S_high == <<"h", "i", "g", "h">>
S_true == <<"t", "r", "u", "e">>
S_development == <<"d", "e", "v", "e", "l", "o", "p", "m", "e", "n", "t">>

S_layer == <<"l", "a", "y", "e", "r">>
S_lambda == <<"l", "a", "m", "b", "d", "a">>
S_traefik == <<"t", "r", "a", "e", "f", "i", "k">>
S_stack == <<"s", "t", "a", "c", "k">>
S_common == <<"c", "o", "m", "m", "o", "n">>
S_utils == <<"u", "t", "i", "l", "s">>
S_role == <<"r", "o", "l", "e">>
S_execution == <<"e", "x", "e", "c", "u", "t", "i", "o", "n">>
S_auth == <<"a", "u", "t", "h">>
S_fn == <<"f", "n">>
S_authorizer == <<"a", "u", "t", "h", "o", "r", "i", "z", "e", "r">>
S_main == <<"m", "a", "i", "n">>
S_api == <<"a", "p", "i">>
S_gateway == <<"g", "a", "t", "e", "w", "a", "y">>
S_handler == <<"h", "a", "n", "d", "l", "e", "r">>

\* values the drawn configuration documents and tag sets hold
S_vox == <<"v", "o", "x">>
S_ops == <<"o", "p", "s">>
S_c1 == <<"c", "1">>
S_lambda_monorepo ==
    <<"l", "a", "m", "b", "d", "a", "-", "m", "o", "n", "o", "r", "e", "p", "o">>
S_platform_team ==
    <<"p", "l", "a", "t", "f", "o", "r", "m", "-", "t", "e", "a", "m">>
S_ENG_001 == <<"E", "N", "G", "-", "0", "0", "1">>
S_2024_01_15 == <<"2", "0", "2", "4", "-", "0", "1", "-", "1", "5">>

(***************************************************************************)
(* infrastructure/stacks/base_stack.py                                     *)
(***************************************************************************)
region_map ==
    [r \in {S_us_east_1, S_us_west_2, S_eu_west_1, S_eu_central_1, S_ap_southeast_1} |->
        CASE r = S_us_east_1 -> S_use1
          [] r = S_us_west_2 -> S_usw2
          [] r = S_eu_west_1 -> S_euw1
          [] r = S_eu_central_1 -> S_euc1
          [] r = S_ap_southeast_1 -> S_apse1]

RegionPrefixLen == 4

\* variant: the fallback keeps three characters
get_region_code_Short(region) ==
    DictGet(region_map, region, Slice(region, 3))

\* BaseStack._get_region_code: region_map.get(self.region, self.region[:4])
get_region_code(region) ==
    DictGet(region_map, region, Slice(region, RegionPrefixLen))

\* variant: the identifier is left out of the name
get_resource_name_NoIdentifier(stk, service, resource_type, identifier) ==
    JoinDash(<<stk.company_code, stk.environment, stk.region_code,
               service, resource_type>>)

\* variant: the resource type is left out of the name
get_resource_name_NoResourceType(stk, service, resource_type, identifier) ==
    JoinDash(<<stk.company_code, stk.environment, stk.region_code,
               service, identifier>>)

\* BaseStack.get_resource_name, on the attributes of the stack `stk`
get_resource_name(stk, service, resource_type, identifier) ==
    JoinDash(<<stk.company_code, stk.environment, stk.region_code,
               service, resource_type, identifier>>)

\* BaseStack.get_stack_name
get_stack_name(stk, purpose) ==
    JoinDash(<<stk.company_code, stk.environment, purpose, S_stack>>)

\* %Y, %m, %d of strftime on a date [year, month, day]: zero-padded decimal
RECURSIVE ZeroPad(_, _)
ZeroPad(n, width) ==
    IF width = 0 THEN <<>>
    ELSE ZeroPad(n \div 10, width - 1) \o <<DigitChar(n % 10)>>

\* variant: the date is written day first
strftime_Ymd_DayFirst(d) ==
    ZeroPad(d.day, 2) \o Dash \o ZeroPad(d.month, 2) \o Dash \o ZeroPad(d.year, 4)

\* datetime.strftime("%Y-%m-%d")
strftime_Ymd(d) ==
    ZeroPad(d.year, 4) \o Dash \o ZeroPad(d.month, 2) \o Dash \o ZeroPad(d.day, 2)

\* One Tags.of(self).add(key, value) of _apply_standard_tags: the value is a
\* literal ("lit"), self.config[cfg] ("req") or self.config.get(cfg, val) ("opt").
TagLit(key, val) == [key |-> key, src |-> "lit", cfg |-> "", val |-> val]
TagReq(key, cfg) == [key |-> key, src |-> "req", cfg |-> cfg, val |-> <<>>]
TagOpt(key, cfg, val) == [key |-> key, src |-> "opt", cfg |-> cfg, val |-> val]

\* variant: the environment-specific branch is skipped
standard_tag_steps_NoConditional(environment, now) ==
    << TagLit("Environment", environment),
       TagReq("Project", "project_name"),
       TagReq("Owner", "owner"),
       TagReq("CostCenter", "cost_center"),
       TagLit("ManagedBy", S_cdk),
       TagLit("CreatedDate", strftime_Ymd(now)),
       TagOpt("DataClassification", "data_classification", S_internal) >>

\* The Tags.of(self).add calls of BaseStack._apply_standard_tags, in order
standard_tag_steps(environment, now) ==
    << TagLit("Environment", environment),
       TagReq("Project", "project_name"),
       TagReq("Owner", "owner"),
       TagReq("CostCenter", "cost_center"),
       TagLit("ManagedBy", S_cdk),
       TagLit("CreatedDate", strftime_Ymd(now)),
       TagOpt("DataClassification", "data_classification", S_internal) >>
    \o (IF environment = S_prd
        THEN << TagOpt("SLA", "sla", S_99_9),
                TagOpt("CriticalityLevel", "criticality", S_high) >>
        ELSE IF environment = S_dev
        THEN << TagLit("AutoShutdown", S_true),
                TagLit("Purpose", S_development) >>
        ELSE << >>)

\* Runs the calls in order; a missing required key raises KeyError and leaves
\* the tags added before it attached.
RECURSIVE AddTags(_, _, _)
AddTags(steps, tags, cfg) ==
    IF Len(steps) = 0 THEN [tags |-> tags, error |-> "none"]
    ELSE LET st == Head(steps) IN
         IF st.src = "req" /\ st.cfg \notin DOMAIN cfg
         THEN [tags |-> tags, error |-> "KeyError"]
         ELSE AddTags(Tail(steps),
                      DictSet(tags, st.key,
                              CASE st.src = "lit" -> st.val
                                [] st.src = "req" -> cfg[st.cfg]
                                [] st.src = "opt" -> DictGet(cfg, st.cfg, st.val)),
                      cfg)

\* BaseStack._apply_standard_tags
apply_standard_tags(environment, cfg, now) ==
    AddTags(standard_tag_steps(environment, now), EmptyDict, cfg)

\* BaseStack.__init__ after super().__init__ has built the Stack in region
\* `region`: the attributes assigned (self.config is the cfg argument itself
\* and is not copied into the record), the tags attached, and the exception.
base_stack_init(cfg, region, now) ==
    LET a0 == [region |-> region] IN
    IF "environment" \notin DOMAIN cfg
    THEN [self |-> a0, tags |-> EmptyDict, error |-> "KeyError"]
    ELSE LET a1 == DictSet(a0, "environment", cfg["environment"]) IN
    IF "company_code" \notin DOMAIN cfg
    THEN [self |-> a1, tags |-> EmptyDict, error |-> "KeyError"]
    ELSE LET a2 == DictSet(a1, "company_code", cfg["company_code"])
             a3 == DictSet(a2, "region_code", get_region_code(region))
             t  == apply_standard_tags(cfg["environment"], cfg, now)
         IN [self |-> a3, tags |-> t.tags, error |-> t.error]

(***************************************************************************)
(* infrastructure/stacks/layer_stack.py, lambda_stack.py, traefik_stack.py *)
(* The body of a stack constructor after BaseStack.__init__, as the        *)
(* sequence of its get_resource_name calls and of its self.config[section] *)
(* [key] dereferences, in evaluation order.                                *)
(***************************************************************************)
NameStep(service, resource_type, identifier) ==
    [kind |-> "name", service |-> service, resource_type |-> resource_type,
     identifier |-> identifier, section |-> "", keys |-> {}]

NeedStep(section, keys) ==
    [kind |-> "need", service |-> <<>>, resource_type |-> <<>>,
     identifier |-> <<>>, section |-> section, keys |-> keys]

layer_stack_body == << NameStep(S_common, S_layer, S_utils) >>

lambda_stack_body ==
    << NameStep(S_lambda, S_role, S_execution),
       NameStep(S_auth, S_fn, S_authorizer),
       NeedStep("lambda", {"timeout_seconds", "memory_size", "log_retention_days"}),
       NameStep(S_main, S_api, S_gateway),
       NeedStep("security", {"allowed_origins"}),
       NeedStep("api_gateway", {"throttle_rate_limit", "throttle_burst_limit"}),
       NameStep(S_api, S_fn, S_handler),
       NeedStep("lambda", {"timeout_seconds", "memory_size"}) >>

S_vpc == <<"v", "p", "c">>
S_cluster == <<"c", "l", "u", "s", "t", "e", "r">>
S_task == <<"t", "a", "s", "k">>
S_proxy == <<"p", "r", "o", "x", "y">>
S_logs == <<"l", "o", "g", "s">>
S_service == <<"s", "e", "r", "v", "i", "c", "e">>

traefik_stack_body ==
    << NameStep(S_traefik, S_vpc, S_main),
       NameStep(S_traefik, S_cluster, S_main),
       NameStep(S_traefik, S_task, S_proxy),
       NameStep(S_traefik, S_logs, S_main),
       NameStep(S_traefik, S_service, S_proxy) >>

\* The attributes a LambdaStack object has once constructed: those of
\* BaseStack; LambdaStack.__init__ assigns none of its own.
lambda_stack_attributes == {"config", "environment", "company_code", "region_code"}

RECURSIVE RunBody(_, _, _, _)
RunBody(steps, stk, cfg, derived) ==
    IF Len(steps) = 0 THEN [names |-> derived, error |-> "none"]
    ELSE LET st == Head(steps) IN
         IF st.kind = "name"
         THEN RunBody(Tail(steps), stk, cfg,
                      Append(derived,
                             get_resource_name(stk, st.service, st.resource_type,
                                               st.identifier)))
         ELSE IF st.section \notin DOMAIN cfg
                 \/ \E k \in st.keys : k \notin DOMAIN cfg[st.section]
         THEN [names |-> derived, error |-> "KeyError"]
         ELSE RunBody(Tail(steps), stk, cfg, derived)

\* LayerStack / LambdaStack / TraefikStack.__init__ after super().__init__ of
\* aws_cdk.Stack: BaseStack.__init__, then the body.
stack_init(body, cfg, region, now) ==
    LET b == base_stack_init(cfg, region, now) IN
    IF b.error # "none"
    THEN [self |-> b.self, tags |-> b.tags, names |-> <<>>, error |-> b.error,
          resolved |-> FALSE]
    ELSE LET r == RunBody(body, b.self, cfg, <<>>) IN
         [self |-> b.self, tags |-> b.tags, names |-> r.names, error |-> r.error,
          resolved |-> TRUE]

(***************************************************************************)
(* scripts/validate_tags.py                                                *)
(***************************************************************************)
mandatory_tags ==
    {"Environment", "Project", "Owner", "CostCenter",
     "ManagedBy", "CreatedDate", "DataClassification"}

valid_environments == {S_dev, S_stg, S_prd}

valid_data_classifications == {S_public, S_internal, S_confidential, S_restricted}

IsLeap(y) == y % 4 = 0 /\ (y % 100 # 0 \/ y % 400 = 0)

DaysInMonth(y, m) ==
    IF m = 2 THEN (IF IsLeap(y) THEN 29 ELSE 28)
    ELSE IF m \in {4, 6, 9, 11} THEN 30 ELSE 31

\* the digits of s[a..b] as a number
RECURSIVE NumberAt(_, _, _)
NumberAt(s, a, b) ==
    IF b < a THEN 0 ELSE NumberAt(s, a, b - 1) * 10 + DigitVal(s[b])

\* %m of datetime.strptime: 1[0-2] | 0[1-9] | [1-9]
MonthField(f) ==
    \/ Len(f) = 2 /\ f[1] = "1" /\ f[2] \in {"0", "1", "2"}
    \/ Len(f) = 2 /\ f[1] = "0" /\ IsDigit(f[2]) /\ f[2] # "0"
    \/ Len(f) = 1 /\ IsDigit(f[1]) /\ f[1] # "0"

\* %d of datetime.strptime: 3[0-1] | [1-2]\d | 0[1-9] | [1-9] | " "[1-9]
DayField(f) ==
    \/ Len(f) = 2 /\ f[1] = "3" /\ f[2] \in {"0", "1"}
    \/ Len(f) = 2 /\ f[1] \in {"1", "2"} /\ IsDigit(f[2])
    \/ Len(f) = 2 /\ f[1] \in {"0", " "} /\ IsDigit(f[2]) /\ f[2] # "0"
    \/ Len(f) = 1 /\ IsDigit(f[1]) /\ f[1] # "0"

FieldValue(f) == IF f[1] = " " THEN NumberAt(f, 2, Len(f)) ELSE NumberAt(f, 1, Len(f))

\* datetime.strptime(s, "%Y-%m-%d"): "ok" when the whole of s matches
\* \d\d\d\d-%m-%d and names a date of the calendar (years 1..9999), else the
\* exception raised, ValueError.
strptime_Ymd(s) ==
    LET n == Len(s)
        \* the month field ends before the second hyphen
        m2 == IF n >= 7 /\ s[7] = "-" THEN 6 ELSE 7
        month == SubSeq(s, 6, m2)
        day == SubSeq(s, m2 + 2, n)
        shape == /\ n >= 8
                 /\ \A i \in 1..4 : IsDigit(s[i])
                 /\ s[5] = "-"
                 /\ n >= m2 + 2
                 /\ s[m2 + 1] = "-"
                 /\ MonthField(month)
                 /\ DayField(day)
    IN IF shape
          /\ NumberAt(s, 1, 4) >= 1
          /\ FieldValue(day) <= DaysInMonth(NumberAt(s, 1, 4), FieldValue(month))
       THEN "ok" ELSE "ValueError"

\* The except clause of validate_tags: the exceptions it turns into an error
caught_by_validate_tags == {"ValueError"}

Violation(kind, missing, value) == [kind |-> kind, missing |-> missing, value |-> value]

\* TagValidator.validate_tags with the except clause catching `caught`: the
\* errors list, the exception that escaped ("none" on a normal return) and
\* the tags mapping as the call leaves it.
validate_tags_catching(tags, caught) ==
    LET missing_tags == mandatory_tags \ DOMAIN tags
        e1 == IF missing_tags # {}
              THEN << Violation("MissingMandatoryTags", missing_tags, <<>>) >>
              ELSE << >>
        e2 == IF "Environment" \in DOMAIN tags
                 /\ tags["Environment"] \notin valid_environments
              THEN << Violation("InvalidEnvironment", {}, tags["Environment"]) >>
              ELSE << >>
        e3 == IF "DataClassification" \in DOMAIN tags
                 /\ tags["DataClassification"] \notin valid_data_classifications
              THEN << Violation("InvalidDataClassification", {},
                                tags["DataClassification"]) >>
              ELSE << >>
        exc == IF "CreatedDate" \in DOMAIN tags
               THEN strptime_Ymd(tags["CreatedDate"]) ELSE "ok"
        e4 == IF exc # "ok" /\ exc \in caught
              THEN << Violation("InvalidCreatedDate", {}, tags["CreatedDate"]) >>
              ELSE << >>
    IN IF exc # "ok" /\ exc \notin caught
       THEN [errors |-> << >>, raised |-> exc, tags |-> tags]
       ELSE [errors |-> e1 \o e2 \o e3 \o e4, raised |-> "none", tags |-> tags]

\* variant: strptime is called outside any try
validate_tags_NoTry(tags) == validate_tags_catching(tags, {})

\* variant: the Environment value is not checked
validate_tags_NoEnvironmentCheck(tags) ==
    LET r == validate_tags_catching(tags, caught_by_validate_tags) IN
    [r EXCEPT !.errors = SelectSeq(r.errors, LAMBDA e : e.kind # "InvalidEnvironment")]

\* TagValidator.validate_tags
validate_tags(tags) == validate_tags_catching(tags, caught_by_validate_tags)

\* main(): the tag set it validates
test_tags ==
    [Environment |-> S_dev, Project |-> S_lambda_monorepo, Owner |-> S_platform_team,
     CostCenter |-> S_ENG_001, ManagedBy |-> S_cdk, CreatedDate |-> S_2024_01_15,
     DataClassification |-> S_internal]

(***************************************************************************)
(* infrastructure/app.py                                                   *)
(***************************************************************************)
\* variant: on a shared key the defaults value is kept
merge_DefaultsWin(defaults, overrides) ==
    [k \in DOMAIN defaults \cup DOMAIN overrides |->
        IF k \in DOMAIN defaults THEN defaults[k] ELSE overrides[k]]

\* config = {**default_config, **env_config}
merge(defaults, overrides) ==
    [k \in DOMAIN defaults \cup DOMAIN overrides |->
        IF k \in DOMAIN overrides THEN overrides[k] ELSE defaults[k]]

\* f"{config["company_code"]}-{env}-<purpose>-stack"
construct_id(cfg, environ, purpose) ==
    JoinDash(<<cfg["company_code"], environ, purpose, S_stack>>)

(***************************************************************************)
(* aws_cdk: Stack.add_dependency and App.synth, which app.py calls.        *)
(* Stack Graph Builder of the design: edges are registered, a cycle is     *)
(* rejected with CyclicDependency, units are emitted in dependency order.  *)
(***************************************************************************)
Units == {"layer", "lambda", "traefik"}

\* the units reachable from the set S along the edges <<dependent, dependency>>
RECURSIVE Closure(_, _)
Closure(deps, S) ==
    LET T == S \cup {e[2] : e \in {d \in deps : d[1] \in S}} IN
    IF T = S THEN S ELSE Closure(deps, T)

\* a.add_dependency(b): a depends on b; refused when b already depends on a
add_dependency(deps, a, b) ==
    IF a \in Closure(deps, {b})
    THEN [deps |-> deps, error |-> "CyclicDependency"]
    ELSE [deps |-> deps \cup {<<a, b>>}, error |-> "none"]

\* One pass of the cycle check: units whose dependencies are all in `done`
\* are marked done until nothing changes; a unit left over lies on or
\* behind a cycle.
RECURSIVE Peel(_, _, _)
Peel(deps, units, done) ==
    LET ready == {u \in units \ done :
                    \A d \in deps : d[1] = u => d[2] \in done} IN
    IF ready = {} THEN done ELSE Peel(deps, units, done \cup ready)

\* variant: only a pair of units depending on each other is seen
is_acyclic_DirectOnly(deps, units) ==
    \A d \in deps : <<d[2], d[1]>> \notin deps

is_acyclic(deps, units) == Peel(deps, units, {}) = units

(***************************************************************************)
(* State                                                                   *)
(***************************************************************************)
cfgVars == <<env, default_config, env_config>>
stackVars == <<constructed, self, stackTags, resourceNames, unitState>>
graphVars == <<dependencies, order, specs>>
validatorVars == <<validated, vtags, exitCode>>
authVars == <<event, jwt_accepts, jwt_rejects, validate_calls, policies, result, log>>

required_keys ==
    {"company_code", "region", "environment", "project_name", "owner", "cost_center"}

\* what datetime.now() may read
Today == { [year |-> 2024, month |-> 1, day |-> 15],
           [year |-> 2026, month |-> 11, day |-> 6] }

\* an optional entry is a sequence of length 0 (absent) or 1 (present)
Entry(key, opt) == IF Len(opt) = 0 THEN EmptyDict ELSE [k \in {key} |-> opt[1]]

Without(d, keys) == [k \in DOMAIN d \ keys |-> d[k]]

LambdaSection ==
    [timeout_seconds |-> 30, memory_size |-> 256, log_retention_days |-> 7]
LambdaSectionPartial == [timeout_seconds |-> 60]

\* defaults.yaml: the keys every environment shares
DefaultsDocument(lambdaOpt) ==
    merge([company_code |-> S_vox, region |-> S_us_east_1,
           project_name |-> S_vox, owner |-> S_ops,
           cost_center |-> S_c1,
           security |-> [allowed_origins |-> <<"*">>],
           api_gateway |-> [throttle_rate_limit |-> 100, throttle_burst_limit |-> 200]],
          Entry("lambda", lambdaOpt))

\* environments/<env>.yaml
EnvDocument(environment, regionOpt, lambdaOpt, classOpt) ==
    merge(merge(merge([environment |-> environment], Entry("region", regionOpt)),
                Entry("lambda", lambdaOpt)),
          Entry("data_classification", classOpt))

IdleStacks ==
    /\ constructed = << >>
    /\ self = EmptyDict
    /\ stackTags = EmptyDict
    /\ resourceNames = EmptyDict
    /\ unitState = EmptyDict

IdleGraph == dependencies = {} /\ order = << >> /\ specs = EmptyDict

IdleValidator == validated = {} /\ vtags = EmptyDict /\ exitCode = -1

IdleAuth ==
    /\ event = EmptyDict
    /\ jwt_accepts = {}
    /\ jwt_rejects = NoValue
    /\ validate_calls = << >>
    /\ policies = << >>
    /\ result = NoValue
    /\ log = << >>

\* A deployment run: the process environment and the two documents on disk.
\* (app.py nests double quotes inside f-strings, so it runs on Python 3.12 or
\* later only.)
Init ==
    /\ env \in {S_dev, S_stg, S_prd}
    /\ \E absent \in {{}} \cup {{k} : k \in required_keys},
          environment \in {S_dev, S_stg, S_prd, S_qa},
          regionOpt \in {<< >>, <<S_eu_west_1>>, <<S_sa_east_1>>},
          lambdaOpts \in {<< <<LambdaSection>>, << >> >>,
                          << <<LambdaSection>>, <<LambdaSectionPartial>> >>,
                          << << >>, << >> >>},
          classOpt \in {<< >>, <<S_confidential>>, <<S_top_secret>>} :
        /\ default_config = Without(DefaultsDocument(lambdaOpts[1]), absent)
        /\ env_config = Without(EnvDocument(environment, regionOpt, lambdaOpts[2],
                                            classOpt), absent)
    /\ config = NoValue
    /\ pc = "merge"
    /\ error = "none"
    /\ names = {}
    /\ IdleStacks /\ IdleGraph /\ IdleValidator /\ IdleAuth

(***************************************************************************)
(* app.py, statement by statement                                          *)
(***************************************************************************)
\* line 21
MergeConfigs ==
    /\ pc = "merge"
    /\ config' = merge(default_config, env_config)
    /\ pc' = "layer"
    /\ UNCHANGED <<authVars, cfgVars, error, stackVars, graphVars, validatorVars, names>>

Fail(exc) ==
    /\ pc' = "failed"
    /\ error' = exc

\* LayerStack(...), LambdaStack(...), TraefikStack(...) of lines 26-61: the
\* arguments are evaluated first (config["company_code"], config["region"]),
\* then aws_cdk.Stack.__init__ adds the stack to the app, then the rest of
\* the constructor runs.
NewStack(stack, purpose, body, nextpc) ==
    IF "company_code" \notin DOMAIN config \/ "region" \notin DOMAIN config
    THEN Fail("KeyError") /\ UNCHANGED stackVars
    ELSE \E now \in Today :
         LET r == stack_init(body, config, config["region"], now) IN
         /\ constructed' = Append(constructed, stack)
         /\ self' = DictSet(self, stack,
                            DictSet(r.self, "construct_id",
                                    construct_id(config, env, purpose)))
         /\ stackTags' = DictSet(stackTags, stack, r.tags)
         /\ resourceNames' = DictSet(resourceNames, stack, r.names)
         /\ unitState' = DictSet(unitState, stack,
                                 IF r.resolved THEN "Resolved" ELSE "Declared")
         /\ IF r.error = "none"
            THEN pc' = nextpc /\ error' = error
            ELSE Fail(r.error)

\* lines 26-34
NewLayerStack ==
    /\ pc = "layer"
    /\ NewStack("layer", S_layer, layer_stack_body, "lambda")
    /\ UNCHANGED <<authVars, cfgVars, config, graphVars, validatorVars, names>>

\* lines 37-46
NewLambdaStack ==
    /\ pc = "lambda"
    /\ NewStack("lambda", S_lambda, lambda_stack_body, "dep_lambda")
    /\ UNCHANGED <<authVars, cfgVars, config, graphVars, validatorVars, names>>

AddDependency(a, b, nextpc) ==
    LET r == add_dependency(dependencies, a, b) IN
    /\ dependencies' = r.deps
    /\ IF r.error = "none"
       THEN pc' = nextpc /\ error' = error
       ELSE Fail(r.error)
    /\ UNCHANGED <<authVars, cfgVars, config, stackVars, order, specs, validatorVars, names>>

\* line 48
LambdaAddDependency ==
    /\ pc = "dep_lambda"
    /\ AddDependency("lambda", "layer", "traefik")

\* lines 52-61: the argument api_gateway_url=lambda_stack.api_url reads an
\* attribute of the LambdaStack object before TraefikStack is called.
NewTraefikStack ==
    /\ pc = "traefik"
    /\ IF "api_url" \notin lambda_stack_attributes
       THEN Fail("AttributeError") /\ UNCHANGED stackVars
       ELSE NewStack("traefik", S_traefik, traefik_stack_body, "dep_traefik")
    /\ UNCHANGED <<authVars, cfgVars, config, graphVars, validatorVars, names>>

\* line 63
TraefikAddDependency ==
    /\ pc = "dep_traefik"
    /\ AddDependency("traefik", "lambda", "synth")

\* line 65: app.synth() starts emitting the stacks
AppSynth ==
    /\ pc = "synth"
    /\ pc' = "emit"
    /\ UNCHANGED <<authVars, cfgVars, config, error, stackVars, graphVars, validatorVars, names>>

(***************************************************************************)
(* validate_tags.py main(), run as a script of its own                     *)
(***************************************************************************)
ValidatorMain ==
    /\ exitCode = -1
    /\ LET r == validate_tags(test_tags) IN
       /\ validated' = validated \cup
             {[caller |-> "main", tags |-> test_tags, errors |-> r.errors,
               raised |-> r.raised]}
       /\ exitCode' = IF r.raised # "none" \/ Len(r.errors) > 0 THEN 1 ELSE 0
    /\ UNCHANGED <<authVars, cfgVars, config, pc, error, stackVars, graphVars, vtags, names>>

\* Lines 63 and 65 of app.py (TraefikAddDependency, AppSynth) follow a
\* statement that always raises and are no step of any run.
Next ==
    \/ MergeConfigs
    \/ NewLayerStack
    \/ NewLambdaStack
    \/ LambdaAddDependency
    \/ NewTraefikStack
    \/ ValidatorMain

Spec == Init /\ [][Next]_vars

(***************************************************************************)
(* The merge on its own: documents over three keys, one of them holding a  *)
(* nested mapping.                                                         *)
(***************************************************************************)
Document(regionOpt, ownerOpt, lambdaOpt) ==
    merge(merge(Entry("region", regionOpt), Entry("owner", ownerOpt)),
          Entry("lambda", lambdaOpt))

Documents(regions, owners, lambdas) ==
    {Document(r, o, l) : r \in regions, o \in owners, l \in lambdas}

InitResolve ==
    /\ env = S_dev
    /\ default_config \in Documents({<< >>, <<S_us_east_1>>, <<S_eu_west_1>>},
                                    {<< >>, <<S_ops>>, <<S_vox>>},
                                    {<< >>, <<LambdaSection>>, <<LambdaSectionPartial>>})
    /\ env_config \in Documents({<< >>, <<S_us_east_1>>, <<S_eu_west_1>>},
                                {<< >>, <<S_ops>>, <<S_vox>>},
                                {<< >>, <<LambdaSection>>, <<LambdaSectionPartial>>})
    /\ config = NoValue
    /\ pc = "merge"
    /\ error = "none"
    /\ names = {}
    /\ IdleStacks /\ IdleGraph /\ IdleValidator /\ IdleAuth

SpecResolve == InitResolve /\ [][MergeConfigs]_vars

(***************************************************************************)
(* BaseStack on its own: one stack is built from a drawn configuration and *)
(* region, then get_resource_name is called on drawn arguments.            *)
(***************************************************************************)
MaxNames == 2

S_fn_main == <<"f", "n", "-", "m", "a", "i", "n">>

Regions ==
    {S_us_east_1, S_us_west_2, S_eu_west_1, S_eu_central_1, S_ap_southeast_1,
     S_sa_east_1, S_us_east_2, S_eu, << >>}

InitNaming ==
    /\ env = S_dev
    /\ default_config = EmptyDict
    /\ env_config = EmptyDict
    /\ \E company_code \in {S_vox, S_eu}, environment \in {S_dev, S_prd},
          region \in Regions :
        config = [company_code |-> company_code, environment |-> environment,
                  region |-> region, project_name |-> S_vox,
                  owner |-> S_ops, cost_center |-> S_c1]
    /\ pc = "naming"
    /\ error = "none"
    /\ names = {}
    /\ IdleStacks /\ IdleGraph /\ IdleValidator /\ IdleAuth

\* BaseStack(scope, id, config, env=Environment(region=config["region"]))
NewBaseStack ==
    /\ pc = "naming"
    /\ "base" \notin DOMAIN self
    /\ \E now \in Today :
        LET r == base_stack_init(config, config["region"], now) IN
        /\ constructed' = Append(constructed, "base")
        /\ self' = DictSet(self, "base", r.self)
        /\ stackTags' = DictSet(stackTags, "base", r.tags)
        /\ unitState' = DictSet(unitState, "base", "Resolved")
    /\ UNCHANGED <<authVars, cfgVars, config, pc, error, resourceNames, graphVars,
                   validatorVars, names>>

\* self.get_resource_name(service, resource_type, identifier)
GetResourceName ==
    /\ pc = "naming"
    /\ "base" \in DOMAIN self
    /\ Cardinality(names) < MaxNames
    /\ \E service \in {S_api, S_auth}, resource_type \in {S_fn, S_role},
          identifier \in {S_handler, S_main, S_fn_main, << >>} :
        names' = names \cup
            {[stack |-> self["base"], service |-> service,
              resource_type |-> resource_type, identifier |-> identifier,
              name |-> get_resource_name(self["base"], service, resource_type,
                                         identifier)]}
    /\ UNCHANGED <<authVars, cfgVars, config, pc, error, stackVars, graphVars, validatorVars>>

NextNaming == NewBaseStack \/ GetResourceName

SpecNaming == InitNaming /\ [][NextNaming]_vars

(***************************************************************************)
(* The validator on its own: validate_tags on a drawn tag mapping, and     *)
(* main().                                                                 *)
(***************************************************************************)
S_2024_1_5 == <<"2", "0", "2", "4", "-", "1", "-", "5">>
S_2024_02_29 == <<"2", "0", "2", "4", "-", "0", "2", "-", "2", "9">>
S_2023_02_29 == <<"2", "0", "2", "3", "-", "0", "2", "-", "2", "9">>
S_2024_13_01 == <<"2", "0", "2", "4", "-", "1", "3", "-", "0", "1">>
S_20240115 == <<"2", "0", "2", "4", "0", "1", "1", "5">>
S_2024_01_15x == <<"2", "0", "2", "4", "-", "0", "1", "-", "1", "5", "x">>
S_0000_01_01 == <<"0", "0", "0", "0", "-", "0", "1", "-", "0", "1">>
S_15_01_2024 == <<"1", "5", "-", "0", "1", "-", "2", "0", "2", "4">>

CreatedDates ==
    {S_2024_01_15, S_2024_1_5, S_2024_02_29, S_2023_02_29, S_2024_13_01,
     S_20240115, S_2024_01_15x, S_0000_01_01, S_15_01_2024, << >>}

TagMapping(environmentOpt, classOpt, dateOpt, others, slaOpt) ==
    merge(merge(merge(merge(Entry("Environment", environmentOpt),
                            Entry("DataClassification", classOpt)),
                      Entry("CreatedDate", dateOpt)),
                [k \in others |-> S_vox]),
          Entry("SLA", slaOpt))

InitValidate ==
    /\ env = S_dev
    /\ default_config = EmptyDict
    /\ env_config = EmptyDict
    /\ config = NoValue
    /\ pc = "validate"
    /\ error = "none"
    /\ names = {}
    /\ IdleStacks /\ IdleGraph /\ IdleAuth
    /\ validated = {}
    /\ exitCode = -1
    /\ \E environmentOpt \in {<< >>, <<S_dev>>, <<S_stg>>, <<S_prd>>, <<S_qa>>},
          classOpt \in {<< >>, <<S_internal>>, <<S_restricted>>, <<S_top_secret>>},
          dateOpt \in {<< >>} \cup {<<d>> : d \in CreatedDates},
          others \in SUBSET {"Project", "Owner", "CostCenter", "ManagedBy"},
          slaOpt \in {<< >>, <<S_99_9>>} :
        vtags = TagMapping(environmentOpt, classOpt, dateOpt, others, slaOpt)

\* errors = validator.validate_tags(tags)
ValidateTags ==
    /\ pc = "validate"
    /\ LET r == validate_tags(vtags) IN
       /\ validated' = validated \cup
             {[caller |-> "caller", tags |-> vtags, errors |-> r.errors,
               raised |-> r.raised]}
       /\ vtags' = r.tags
       /\ IF r.raised = "none"
          THEN pc' = "returned" /\ error' = error
          ELSE Fail(r.raised)
    /\ UNCHANGED <<authVars, cfgVars, config, stackVars, graphVars, exitCode, names>>

NextValidate == ValidateTags \/ ValidatorMain

SpecValidate == InitValidate /\ [][NextValidate]_vars

(***************************************************************************)
(* Stack Graph Builder on a drawn list of stack specifications: every      *)
(* unit names the units it depends on.  Units are resolved in list order,  *)
(* the declared edges are registered, the relation is checked for cycles   *)
(* and the units are emitted in dependency order.                          *)
(***************************************************************************)
UnitList == <<"layer", "lambda", "traefik">>

\* the edges <<dependent, dependency>> the specifications declare
DeclaredEdges(sp) == {e \in Units \X Units : e[2] \in sp[e[1]]}

InitGraph ==
    /\ env = S_dev
    /\ default_config = EmptyDict
    /\ env_config = EmptyDict
    /\ \E environment \in {S_dev, S_prd} :
        config = merge(DefaultsDocument(<<LambdaSection>>),
                       EnvDocument(environment, << >>, << >>, << >>))
    /\ pc = "resolve"
    /\ error = "none"
    /\ names = {}
    /\ constructed = << >>
    /\ self = EmptyDict
    /\ stackTags = EmptyDict
    /\ resourceNames = EmptyDict
    /\ unitState = [u \in Units |-> "Declared"]
    /\ dependencies = {}
    /\ order = << >>
    /\ specs \in [Units -> SUBSET Units]
    /\ IdleValidator /\ IdleAuth

\* identity and tags are attached to the next declared unit of the list
ResolveUnit ==
    /\ pc = "resolve"
    /\ LET u == UnitList[Len(constructed) + 1]
           r == base_stack_init(config, config["region"],
                                CHOOSE d \in Today : d.year = 2024)
       IN /\ constructed' = Append(constructed, u)
          /\ self' = DictSet(self, u, r.self)
          /\ stackTags' = DictSet(stackTags, u, r.tags)
          /\ unitState' = [unitState EXCEPT ![u] = "Resolved"]
          /\ pc' = IF Len(constructed) + 1 = Len(UnitList) THEN "register" ELSE "resolve"
    /\ UNCHANGED <<authVars, cfgVars, config, error, resourceNames, graphVars, validatorVars,
                   names>>

RegisterEdges ==
    /\ pc = "register"
    /\ dependencies' = DeclaredEdges(specs)
    /\ pc' = "verify"
    /\ UNCHANGED <<authVars, cfgVars, config, error, stackVars, order, specs, validatorVars,
                   names>>

VerifyAcyclic ==
    /\ pc = "verify"
    /\ IF is_acyclic(dependencies, Units)
       THEN pc' = "emit" /\ error' = error
       ELSE Fail("CyclicDependency")
    /\ UNCHANGED <<authVars, cfgVars, config, stackVars, graphVars, validatorVars, names>>

\* variant: any resolved unit is emitted, whatever it depends on
EmitUnit_Unordered ==
    /\ pc = "emit"
    /\ \E u \in Units :
        /\ unitState[u] = "Resolved"
        /\ order' = Append(order, u)
        /\ unitState' = [unitState EXCEPT ![u] = "Ordered"]
    /\ UNCHANGED <<authVars, cfgVars, config, pc, error, constructed, self, stackTags,
                   resourceNames, dependencies, specs, validatorVars, names>>

\* a unit is ready once every unit it depends on has been emitted
EmitUnit ==
    /\ pc = "emit"
    /\ \E u \in Units :
        /\ unitState[u] = "Resolved"
        /\ \A d \in dependencies : d[1] = u => unitState[d[2]] = "Ordered"
        /\ order' = Append(order, u)
        /\ unitState' = [unitState EXCEPT ![u] = "Ordered"]
    /\ UNCHANGED <<authVars, cfgVars, config, pc, error, constructed, self, stackTags,
                   resourceNames, dependencies, specs, validatorVars, names>>

\* the plan is handed off once every unit has its position
FinishPlan ==
    /\ pc = "emit"
    /\ \A u \in Units : unitState[u] = "Ordered"
    /\ pc' = "done"
    /\ UNCHANGED <<authVars, cfgVars, config, error, stackVars, graphVars, validatorVars, names>>

NextGraph ==
    \/ ResolveUnit
    \/ RegisterEdges
    \/ VerifyAcyclic
    \/ EmitUnit
    \/ FinishPlan

SpecGraph == InitGraph /\ [][NextGraph]_vars


(***************************************************************************)
(* The request-time authorizer: lambdas/authorizer/handler.py with         *)
(* common/utils.py and common/models.py.                                   *)
(*                                                                         *)
(* A Python value is a record [t, s, n, items]: its type name, its         *)
(* characters when a str, its number when an int, its elements when a      *)
(* list.  An exception is [type, message]; messages are never computed on  *)
(* and are written as TLA+ strings.                                        *)
(***************************************************************************)
PyStr(chars) == [t |-> "str", s |-> chars, n |-> 0, items |-> << >>]
PyInt(i) == [t |-> "int", s |-> << >>, n |-> i, items |-> << >>]
PyNone == [t |-> "NoneType", s |-> << >>, n |-> 0, items |-> << >>]
PyList(xs) == [t |-> "list", s |-> << >>, n |-> 0, items |-> xs]

\* bool(v)
Truthy(v) ==
    CASE v.t = "str" -> v.s # << >>
      [] v.t = "int" -> v.n # 0
      [] v.t = "list" -> v.items # << >>
      [] OTHER -> FALSE

\* str(i) for an int
RECURSIVE IntToStr(_)
IntToStr(i) ==
    IF i < 0 THEN <<"-">> \o IntToStr(-i)
    ELSE IF i < 10 THEN <<DigitChar(i)>>
    ELSE IntToStr(i \div 10) \o <<DigitChar(i % 10)>>

\* sep.join(parts) for a sequence of str
RECURSIVE Join(_, _)
Join(sep, parts) ==
    IF Len(parts) = 0 THEN << >>
    ELSE IF Len(parts) = 1 THEN parts[1]
    ELSE parts[1] \o sep \o Join(sep, Tail(parts))

\* repr(v); the strings drawn here hold no quote, backslash or control character
RECURSIVE py_repr(_)
py_repr(v) ==
    CASE v.t = "str" -> <<"'">> \o v.s \o <<"'">>
      [] v.t = "int" -> IntToStr(v.n)
      [] v.t = "list" ->
            <<"[">> \o Join(<<",", " ">>, [i \in 1..Len(v.items) |-> py_repr(v.items[i])])
                    \o <<"]">>
      [] OTHER -> <<"N", "o", "n", "e">>

\* str(v)
py_str(v) == IF v.t = "str" THEN v.s ELSE py_repr(v)

\* s.replace(old, new) for a non-empty old: every occurrence, left to right
RECURSIVE Replace(_, _, _)
Replace(s, old, new) ==
    IF Len(s) < Len(old) THEN s
    ELSE IF SubSeq(s, 1, Len(old)) = old
         THEN new \o Replace(SubSeq(s, Len(old) + 1, Len(s)), old, new)
         ELSE <<s[1]>> \o Replace(Tail(s), old, new)

S_Bearer_ == <<"B", "e", "a", "r", "e", "r", " ">>
S_Allow == <<"A", "l", "l", "o", "w">>
S_Deny == <<"D", "e", "n", "y">>
S_2012_10_17 == <<"2", "0", "1", "2", "-", "1", "0", "-", "1", "7">>
S_execute_api_Invoke == <<"e", "x", "e", "c", "u", "t", "e", "-", "a", "p", "i", ":", "I", "n", "v", "o", "k", "e">>
S_comma == <<",">>

NoException == [type |-> "none", message |-> ""]
Exc(type, message) == [type |-> type, message |-> message]

\* models.py: the dataclass constructor with __post_init__
AuthContext(user_id, email, roles, expires_at) ==
    [user_id |-> user_id, email |-> email,
     roles |-> IF roles = PyNone THEN PyList(<< >>) ELSE roles,
     expires_at |-> expires_at]

\* ",".join(v): the elements of a list must be str, a str is joined by character,
\* anything else is not iterable
Joinable(v) ==
    \/ v.t = "str"
    \/ v.t = "list" /\ \A i \in 1..Len(v.items) : v.items[i].t = "str"

join_comma(v) ==
    IF v.t = "str" THEN Join(S_comma, [i \in 1..Len(v.s) |-> <<v.s[i]>>])
    ELSE Join(S_comma, [i \in 1..Len(v.items) |-> v.items[i].s])

\* models.py: AuthContext.to_dict
to_dict(ac) ==
    IF ~Joinable(ac.roles)
    THEN [raised |-> Exc("TypeError", "sequence item: expected str instance"),
          value |-> EmptyDict]
    ELSE [raised |-> NoException,
          value |-> [userId |-> ac.user_id,
                     email |-> IF Truthy(ac.email) THEN ac.email ELSE PyStr(<< >>),
                     roles |-> PyStr(join_comma(ac.roles)),
                     expiresAt |-> IF Truthy(ac.expires_at)
                                   THEN PyStr(py_str(ac.expires_at))
                                   ELSE PyStr(<< >>)]]

\* utils.py line 13: jwt.decode verifies the token against the secret and
\* returns its payload, or raises
jwt_decode(token, accepts, rejects) ==
    IF \E a \in accepts : a.token = token
    THEN [raised |-> NoException,
          value |-> (CHOOSE a \in accepts : a.token = token).payload]
    ELSE [raised |-> rejects, value |-> EmptyDict]

\* utils.py: validate_token
validate_token(token, accepts, rejects) ==
    LET d == jwt_decode(token, accepts, rejects)
        payload == d.value
    IN  IF d.raised.type = "ExpiredSignatureError"
        THEN [raised |-> Exc("InvalidTokenError", "Token has expired"), value |-> NoValue]
        ELSE IF d.raised # NoException
        THEN [raised |-> d.raised, value |-> NoValue]
        ELSE IF "sub" \notin DOMAIN payload
        THEN [raised |-> Exc("KeyError", "'sub'"), value |-> NoValue]
        ELSE [raised |-> NoException,
              value |-> AuthContext(payload["sub"],
                                    DictGet(payload, "email", PyNone),
                                    DictGet(payload, "roles", PyList(<< >>)),
                                    DictGet(payload, "exp", PyNone))]

\* variant: the context is copied without str()
create_policy_NoCoercion(principal_id, effect, resource, context) ==
    LET policy == [principalId |-> principal_id,
                   policyDocument |-> [Version |-> PyStr(S_2012_10_17),
                                       Statement |-> << [Action |-> PyStr(S_execute_api_Invoke),
                                                         Effect |-> effect,
                                                         Resource |-> resource] >>]]
    IN  IF Len(context) = 1 /\ DOMAIN context[1] # {}
        THEN DictSet(policy, "context", context[1])
        ELSE policy

\* utils.py: create_policy; context is << >> for None and <<dict>> for a dict
create_policy(principal_id, effect, resource, context) ==
    LET policy == [principalId |-> principal_id,
                   policyDocument |-> [Version |-> PyStr(S_2012_10_17),
                                       Statement |-> << [Action |-> PyStr(S_execute_api_Invoke),
                                                         Effect |-> effect,
                                                         Resource |-> resource] >>]]
    IN  IF Len(context) = 1 /\ DOMAIN context[1] # {}
        THEN DictSet(policy, "context",
                     [k \in DOMAIN context[1] |-> PyStr(py_str(context[1][k]))])
        ELSE policy

\* variant: the prefix is left on the token
extract_token_NoStrip(ev) == DictGet(ev, "authorizationToken", PyStr(<< >>)).s

\* handler.py line 21
extract_token(ev) ==
    Replace(DictGet(ev, "authorizationToken", PyStr(<< >>)).s, S_Bearer_, << >>)

\* variant: no guard before the validator
unusable_Never(token) == FALSE

\* handler.py line 23: not token
unusable(token) == token = << >>

Unauthorized == Exc("Exception", "Unauthorized")

\* variant: the handled exception is raised again
on_failure_Reraise(e) == [kind |-> "raise", exc |-> e, context |-> << >>]

\* handler.py lines 40-42: an exception raised while another is handled keeps
\* the handled one as its __context__
on_failure(e) == [kind |-> "raise", exc |-> Unauthorized, context |-> <<e>>]

\* handler.py: lambda_handler; keyword arguments are evaluated left to right
lambda_handler(ev, accepts, rejects) ==
    LET token == extract_token(ev)
        line18 == [line |-> 18, text |-> "Event"]
    IN  IF unusable(token)
        THEN [result |-> [kind |-> "raise", exc |-> Unauthorized, context |-> << >>],
              validate_calls |-> << >>, policies |-> << >>, log |-> <<line18>>]
        ELSE
        LET v == validate_token(token, accepts, rejects)
            d == to_dict(v.value)
            e == IF v.raised # NoException THEN v.raised
                 ELSE IF "methodArn" \notin DOMAIN ev THEN Exc("KeyError", "'methodArn'")
                 ELSE d.raised
        IN  IF e # NoException
            THEN [result |-> on_failure(e), validate_calls |-> <<token>>,
                  policies |-> << >>,
                  log |-> <<line18, [line |-> 41, text |-> e.message]>>]
            ELSE
            LET policy == create_policy(v.value.user_id, PyStr(S_Allow),
                                        ev["methodArn"], <<d.value>>)
            IN  [result |-> [kind |-> "return", value |-> policy],
                 validate_calls |-> <<token>>,
                 policies |-> << [principal_id |-> v.value.user_id,
                                  effect |-> PyStr(S_Allow),
                                  resource |-> ev["methodArn"],
                                  context |-> <<d.value>>,
                                  policy |-> policy] >>,
                 log |-> <<line18>>]

(***************************************************************************)
(* One invocation of the authorizer.  lambda_stack.py attaches it as a     *)
(* TokenAuthorizer, so the token of a request is a str; requests without   *)
(* the field or without methodArn are drawn as well.  jwt.decode is the    *)
(* PyJWT call of utils.py: a run fixes which tokens it verifies, with      *)
(* which payload, and what it raises for the others.                       *)
(***************************************************************************)
MaxPieces == 3

TokenPieces == {S_Bearer_, <<"a">>, <<"b">>}

RECURSIVE Concat(_)
Concat(parts) == IF Len(parts) = 0 THEN << >> ELSE parts[1] \o Concat(Tail(parts))

HeaderValues == {Concat(ps) : ps \in UNION {[1..n -> TokenPieces] : n \in 0..MaxPieces}}

S_arn == <<"a", "r", "n">>
S_u1 == <<"u", "1">>

Event(tokenOpt, arnOpt) ==
    merge(Entry("authorizationToken", tokenOpt), Entry("methodArn", arnOpt))

Payload(subOpt, emailOpt, rolesOpt, expOpt) ==
    merge(merge(merge(Entry("sub", subOpt), Entry("email", emailOpt)),
                Entry("roles", rolesOpt)),
          Entry("exp", expOpt))

Payloads ==
    {Payload(s, e, r, x) :
        s \in {<< >>, <<PyStr(S_u1)>>, <<PyInt(7)>>},
        e \in {<< >>, <<PyStr(<<"e">>)>>, <<PyNone>>},
        r \in {<< >>, <<PyList(<<PyStr(<<"r">>), PyStr(<<"s">>)>>)>>,
               <<PyList(<<PyInt(1)>>)>>, <<PyStr(<<"r", "s">>)>>, <<PyNone>>},
        x \in {<< >>, <<PyInt(90)>>}}

JwtFailures ==
    {Exc("ExpiredSignatureError", "Signature has expired"),
     Exc("InvalidSignatureError", "Signature verification failed"),
     Exc("DecodeError", "Not enough segments")}

InitAuthorizer ==
    /\ env = S_dev
    /\ default_config = EmptyDict
    /\ env_config = EmptyDict
    /\ config = NoValue
    /\ pc = "invoke"
    /\ error = "none"
    /\ names = {}
    /\ IdleStacks /\ IdleGraph /\ IdleValidator
    /\ \E tokenOpt \in {<< >>} \cup {<<PyStr(h)>> : h \in HeaderValues},
          arnOpt \in {<< >>, <<PyStr(S_arn)>>} :
        event = Event(tokenOpt, arnOpt)
    \* a compact JWT holds base64url characters and dots, no space
    /\ jwt_accepts \in {{}} \cup {{[token |-> t, payload |-> p]} :
                                    t \in {<<"a">>, <<"a", "b">>}, p \in Payloads}
    /\ jwt_rejects \in JwtFailures
    /\ validate_calls = << >>
    /\ policies = << >>
    /\ result = NoValue
    /\ log = << >>

InvokeAuthorizer ==
    /\ pc = "invoke"
    /\ LET r == lambda_handler(event, jwt_accepts, jwt_rejects)
       IN  /\ result' = r.result
           /\ validate_calls' = r.validate_calls
           /\ policies' = r.policies
           /\ log' = r.log
    /\ pc' = "done"
    /\ UNCHANGED <<event, jwt_accepts, jwt_rejects, cfgVars, config, error, stackVars,
                   graphVars, validatorVars, names>>

SpecAuthorizer == InitAuthorizer /\ [][InvokeAuthorizer]_vars

(***************************************************************************)
(* create_policy on its own, over arguments of every type                  *)
(***************************************************************************)
MaxPolicies == 1

ContextValues ==
    {PyStr(<<"v">>), PyStr(<< >>), PyInt(5), PyInt(-12), PyNone,
     PyList(<<PyStr(<<"r">>), PyInt(1)>>)}

Contexts ==
    {<< >>, <<EmptyDict>>}
    \cup {<<[k \in {"k1"} |-> v]>> : v \in ContextValues}
    \cup {<<[k \in {"k1", "k2"} |-> IF k = "k1" THEN v ELSE w]>> :
             v \in ContextValues, w \in ContextValues}
    \cup {<<to_dict(AuthContext(PyStr(S_u1), PyNone, PyNone, x)).value>> :
             x \in {PyNone, PyInt(90)}}

InitPolicy ==
    /\ env = S_dev
    /\ default_config = EmptyDict
    /\ env_config = EmptyDict
    /\ config = NoValue
    /\ pc = "policy"
    /\ error = "none"
    /\ names = {}
    /\ IdleStacks /\ IdleGraph /\ IdleValidator /\ IdleAuth

CreatePolicy ==
    /\ pc = "policy"
    /\ Len(policies) < MaxPolicies
    /\ \E principal_id \in {PyStr(S_u1), PyInt(7)},
          effect \in {PyStr(S_Allow), PyStr(S_Deny)},
          resource \in {PyStr(S_arn), PyStr(<<"*">>)},
          context \in Contexts :
        policies' = Append(policies,
                           [principal_id |-> principal_id, effect |-> effect,
                            resource |-> resource, context |-> context,
                            policy |-> create_policy(principal_id, effect, resource,
                                                     context)])
    /\ UNCHANGED <<event, jwt_accepts, jwt_rejects, validate_calls, result, log, cfgVars,
                   config, pc, error, stackVars, graphVars, validatorVars, names>>

SpecPolicy == InitPolicy /\ [][CreatePolicy]_vars

(***************************************************************************)
(* The three stack classes constructed for one configuration, in the order *)
(* of app.py, each by its own constructor with the construct id app.py     *)
(* gives it.  TraefikStack.__init__ is run as coded, on a given            *)
(* api_gateway_url.                                                        *)
(***************************************************************************)
S_v_x == <<"v", "-", "x">>

InitStacks ==
    /\ env \in {S_dev, S_stg, S_prd}
    /\ default_config = EmptyDict
    /\ env_config = EmptyDict
    /\ \E company \in {S_vox, S_v_x},
          environment \in {S_dev, S_stg, S_prd, S_qa},
          regionOpt \in {<< >>, <<S_eu_west_1>>, <<S_sa_east_1>>},
          lambdaOpt \in {<<LambdaSection>>, <<LambdaSectionPartial>>} :
        config = merge(DefaultsDocument(lambdaOpt),
                       merge([company_code |-> company],
                             EnvDocument(environment, regionOpt, << >>, << >>)))
    /\ pc = "layer"
    /\ error = "none"
    /\ names = {}
    /\ IdleStacks /\ IdleGraph /\ IdleValidator /\ IdleAuth

ConstructLayerStack ==
    /\ pc = "layer"
    /\ NewStack("layer", S_layer, layer_stack_body, "lambda")
    /\ UNCHANGED <<authVars, cfgVars, config, graphVars, validatorVars, names>>

ConstructLambdaStack ==
    /\ pc = "lambda"
    /\ NewStack("lambda", S_lambda, lambda_stack_body, "traefik")
    /\ UNCHANGED <<authVars, cfgVars, config, graphVars, validatorVars, names>>

ConstructTraefikStack ==
    /\ pc = "traefik"
    /\ NewStack("traefik", S_traefik, traefik_stack_body, "done")
    /\ UNCHANGED <<authVars, cfgVars, config, graphVars, validatorVars, names>>

NextStacks == ConstructLayerStack \/ ConstructLambdaStack \/ ConstructTraefikStack

SpecStacks == InitStacks /\ [][NextStacks]_vars

(***************************************************************************)
(* Properties                                                              *)
(***************************************************************************)

\* C1: after the merge the configuration has exactly the keys of defaults
\* union overrides; each key holds the overrides value when overrides has the
\* key and the defaults value otherwise; a nested mapping under a shared key
\* is the overrides mapping whole, never a key-by-key union.
C1_MergeShallowOverride ==
    pc # "merge" =>
        /\ DOMAIN config = DOMAIN default_config \cup DOMAIN env_config
        /\ \A k \in DOMAIN env_config : config[k] = env_config[k]
        /\ \A k \in DOMAIN default_config \ DOMAIN env_config :
              config[k] = default_config[k]
        /\ ("lambda" \in DOMAIN default_config \cap DOMAIN env_config
              => DOMAIN config["lambda"] = DOMAIN env_config["lambda"])

C1_Witness ==
    /\ pc # "merge"
    /\ "lambda" \in DOMAIN default_config \cap DOMAIN env_config
    /\ default_config["lambda"] = LambdaSection
    /\ env_config["lambda"] = LambdaSectionPartial
    /\ "memory_size" \notin DOMAIN config["lambda"]
    /\ "owner" \in DOMAIN default_config \ DOMAIN env_config
    /\ "region" \in DOMAIN default_config \cap DOMAIN env_config
    /\ default_config["region"] # env_config["region"]

\* C2: when a required key is absent after the merge, no stack is
\* constructed, no tag is attached and no resource name is derived.  (The
\* run raises KeyError at the first dereference of the key; nothing checks
\* the required keys beforehand.)
C2_MissingKeyStopsBeforeNamingAndTagging ==
    (pc # "merge" /\ ~(required_keys \subseteq DOMAIN config)) =>
        /\ constructed = << >>
        /\ \A s \in DOMAIN stackTags : DOMAIN stackTags[s] = {}
        /\ \A s \in DOMAIN resourceNames : resourceNames[s] = << >>

\* C3: the tag set of every stack that has its identity and tags attached
\* was handed to validate_tags before, and came back with no violation.
C3_TagsValidatedBeforeGraphIsBuilt ==
    \A s \in DOMAIN stackTags :
        unitState[s] = "Resolved" =>
            \E v \in validated :
                v.tags = stackTags[s] /\ v.raised = "none" /\ v.errors = << >>

\* a configuration with which no constructor runs into a missing key
ConfigSufficient(cfg) ==
    /\ required_keys \subseteq DOMAIN cfg
    /\ cfg["environment"] \in {S_dev, S_stg, S_prd}
    /\ {"lambda", "security", "api_gateway"} \subseteq DOMAIN cfg
    /\ {"timeout_seconds", "memory_size", "log_retention_days"}
          \subseteq DOMAIN cfg["lambda"]

\* C4: a run on the reference topology ends with the units emitted in the
\* order layer, lambda, traefik.
C4_ReferenceOrderEmitted ==
    (pc \in {"failed", "done"} /\ ConfigSufficient(config)) =>
        order = <<"layer", "lambda", "traefik">>

\* a unit reaches itself along one or more edges
HasCycle(edges) ==
    \E u \in Units : u \in Closure(edges, {e[2] : e \in {d \in edges : d[1] = u}})

\* C5: when the declared edges contain a cycle no unit is ever emitted, the
\* run never reaches emission, and once the edges are checked it has failed
\* with CyclicDependency.
C5_CycleRejectedWithoutPlan ==
    HasCycle(DeclaredEdges(specs)) =>
        /\ order = << >>
        /\ \A u \in Units : unitState[u] # "Ordered"
        /\ pc \in {"resolve", "register", "verify", "failed"}
        /\ (pc = "failed" => error = "CyclicDependency")

C5_Witness ==
    /\ specs["layer"] = {"lambda"}
    /\ specs["lambda"] = {"layer"}
    /\ specs["traefik"] = {}
    /\ pc = "failed"
    /\ error = "CyclicDependency"
    /\ order = << >>

MappedRegions ==
    {S_us_east_1, S_us_west_2, S_eu_west_1, S_eu_central_1, S_ap_southeast_1}

\* c is the first n characters of r (all of r when r is shorter)
IsPrefixOfLength(c, r, n) ==
    /\ Len(c) = (IF Len(r) < n THEN Len(r) ELSE n)
    /\ \A i \in 1..Len(c) : c[i] = r[i]

\* C6: the region code of a stack is the table entry for each of the five
\* mapped regions and the first 4 characters of the region otherwise
\* ("sa-east-1" gives "sa-e"); it is fixed by the region string alone.
C6_RegionCode ==
    \A s \in DOMAIN self :
        "region_code" \in DOMAIN self[s] =>
            LET r == self[s]["region"]
                c == self[s]["region_code"]
            IN /\ (r = S_us_east_1 => c = <<"u", "s", "e", "1">>)
               /\ (r = S_us_west_2 => c = <<"u", "s", "w", "2">>)
               /\ (r = S_eu_west_1 => c = <<"e", "u", "w", "1">>)
               /\ (r = S_eu_central_1 => c = <<"e", "u", "c", "1">>)
               /\ (r = S_ap_southeast_1 => c = <<"a", "p", "s", "e", "1">>)
               /\ (r \notin MappedRegions => IsPrefixOfLength(c, r, 4))
               /\ (r = S_sa_east_1 => c = <<"s", "a", "-", "e">>)

C6_Witness ==
    /\ "base" \in DOMAIN self
    /\ self["base"]["region"] = S_sa_east_1
    /\ self["base"]["region_code"] = <<"s", "a", "-", "e">>

SameButIdentifier(a, b) ==
    /\ a.stack["company_code"] = b.stack["company_code"]
    /\ a.stack["environment"] = b.stack["environment"]
    /\ a.stack["region_code"] = b.stack["region_code"]
    /\ a.service = b.service
    /\ a.resource_type = b.resource_type

\* C7: a resource name is its six fields company_code, environment,
\* region_code, service, resource_type, identifier in that order joined by
\* "-"; equal fields give the identical name, and two calls that differ only
\* in the identifier give distinct names.
C7_ResourceName ==
    /\ \A n \in names :
          n.name = n.stack["company_code"] \o <<"-">> \o n.stack["environment"]
                   \o <<"-">> \o n.stack["region_code"] \o <<"-">> \o n.service
                   \o <<"-">> \o n.resource_type \o <<"-">> \o n.identifier
    /\ \A a \in names : \A b \in names :
          SameButIdentifier(a, b) =>
              (a.identifier = b.identifier <=> a.name = b.name)

C7_Witness ==
    \E a \in names : \E b \in names :
        /\ SameButIdentifier(a, b)
        /\ a.identifier = << >>
        /\ b.identifier = S_fn_main
        /\ a.name # b.name

C8_Mandatory ==
    {"Environment", "Project", "Owner", "CostCenter", "ManagedBy", "CreatedDate",
     "DataClassification"}

\* C8: the tags of a stack always include the seven mandatory tags; for
\* environment prd also SLA and CriticalityLevel, for dev also AutoShutdown,
\* and for any other environment the key set is exactly the mandatory set.
C8_TagSet ==
    \A s \in DOMAIN stackTags :
        unitState[s] = "Resolved" =>
            LET t == stackTags[s]
                e == self[s]["environment"]
            IN /\ C8_Mandatory \subseteq DOMAIN t
               /\ t["Environment"] = e
               /\ (e = S_prd => {"SLA", "CriticalityLevel"} \subseteq DOMAIN t)
               /\ (e = S_dev => "AutoShutdown" \in DOMAIN t)
               /\ (e \notin {S_prd, S_dev} => DOMAIN t = C8_Mandatory)

C8_Witness ==
    /\ "layer" \in DOMAIN stackTags /\ "lambda" \in DOMAIN stackTags
    /\ unitState["lambda"] = "Resolved"
    /\ self["lambda"]["environment"] = S_prd
    /\ "SLA" \in DOMAIN stackTags["lambda"]
    /\ "AutoShutdown" \notin DOMAIN stackTags["lambda"]

Compliant(tags) ==
    /\ C8_Mandatory \subseteq DOMAIN tags
    /\ tags["Environment"] \in {S_dev, S_stg, S_prd}
    /\ tags["DataClassification"] \in
          {S_public, S_internal, S_confidential, S_restricted}
    /\ strptime_Ymd(tags["CreatedDate"]) = "ok"

CheckRank(kind) ==
    CASE kind = "MissingMandatoryTags" -> 1
      [] kind = "InvalidEnvironment" -> 2
      [] kind = "InvalidDataClassification" -> 3
      [] kind = "InvalidCreatedDate" -> 4

\* C9: validate_tags returns the empty list exactly for the compliant tag
\* sets; a set without Owner gets a missing-tags violation naming Owner,
\* DataClassification "top-secret" gets a classification violation; the
\* violations come in the order missing tags (one entry with all missing
\* keys), Environment, DataClassification, CreatedDate.
C9_Validate ==
    \A v \in validated :
        /\ (v.errors = << >> <=> Compliant(v.tags))
        /\ ("Owner" \notin DOMAIN v.tags =>
               \E i \in 1..Len(v.errors) :
                   /\ v.errors[i].kind = "MissingMandatoryTags"
                   /\ "Owner" \in v.errors[i].missing)
        /\ (("DataClassification" \in DOMAIN v.tags
             /\ v.tags["DataClassification"] = S_top_secret) =>
               \E i \in 1..Len(v.errors) :
                   /\ v.errors[i].kind = "InvalidDataClassification"
                   /\ v.errors[i].value = S_top_secret)
        /\ \A i \in 1..Len(v.errors) : \A j \in 1..Len(v.errors) :
               i < j => CheckRank(v.errors[i].kind) < CheckRank(v.errors[j].kind)
        /\ \A i \in 1..Len(v.errors) :
               v.errors[i].kind = "MissingMandatoryTags" =>
                   v.errors[i].missing = C8_Mandatory \ DOMAIN v.tags
        /\ (("Environment" \in DOMAIN v.tags
             /\ v.tags["Environment"] \notin {S_dev, S_stg, S_prd}) =>
               \E i \in 1..Len(v.errors) : v.errors[i].kind = "InvalidEnvironment")

C9_Witness ==
    \E v \in validated : \E w \in validated :
        /\ Compliant(v.tags) /\ v.errors = << >>
        /\ "Owner" \notin DOMAIN w.tags
        /\ "DataClassification" \in DOMAIN w.tags
        /\ w.tags["DataClassification"] = S_top_secret
        /\ "CreatedDate" \in DOMAIN w.tags
        /\ w.tags["CreatedDate"] = S_2024_13_01
        /\ Len(w.errors) = 3

\* C10: a call of validate_tags returns (it never raises) and leaves the
\* mapping it was given with the same keys and values.
C10_ValidateReturnsAndLeavesInput ==
    /\ pc \in {"validate", "returned"}
    /\ \A v \in validated : v.raised = "none"
    /\ (pc = "returned" =>
          \E v \in validated : v.caller = "caller" /\ v.tags = vtags)

C10_Witness ==
    /\ pc = "returned"
    /\ \E v \in validated :
          /\ v.caller = "caller"
          /\ DOMAIN v.tags = {"Environment", "DataClassification", "CreatedDate"}
          /\ v.tags["Environment"] = S_qa
          /\ v.tags["DataClassification"] = S_top_secret
          /\ v.tags["CreatedDate"] = S_2023_02_29
          /\ Len(v.errors) = 4

(***************************************************************************)
(* The authorizer                                                          *)
(***************************************************************************)

\* what a raised exception shows of itself to the caller of the function:
\* its class and its message
Signal(r) == [errorType |-> r.exc.type, errorMessage |-> r.exc.message]

IsUnauthorized(r) ==
    /\ r.kind = "raise"
    /\ Signal(r) = [errorType |-> "Exception", errorMessage |-> "Unauthorized"]

HeaderIs(ev, chars) ==
    "authorizationToken" \in DOMAIN ev /\ ev["authorizationToken"] = PyStr(chars)

EmptyOrMissingToken(ev) ==
    \/ "authorizationToken" \notin DOMAIN ev
    \/ HeaderIs(ev, << >>)
    \/ HeaderIs(ev, S_Bearer_)

\* C11: a request without the authorizationToken field, with an empty one or
\* with only "Bearer " in it ends in Unauthorized; validate_token has not been
\* called and no policy has been built
C11_EmptyTokenUnauthorized ==
    (pc = "done" /\ EmptyOrMissingToken(event)) =>
        /\ IsUnauthorized(result)
        /\ validate_calls = << >>
        /\ policies = << >>

C11_Witness ==
    /\ pc = "done"
    /\ HeaderIs(event, S_Bearer_)
    /\ jwt_accepts # {}
    /\ IsUnauthorized(result)

\* C12: whenever the validator was called and no policy came back, whatever
\* was raised on the way (by jwt.decode, by the payload lookup, by the
\* methodArn lookup or by to_dict), the caller gets the one Unauthorized
\* signal, the same as for an empty token; the cause is in the log only
C12_FailuresCollapseToUnauthorized ==
    (pc = "done" /\ validate_calls # << >> /\ result.kind # "return") =>
        /\ IsUnauthorized(result)
        /\ Signal(result) = Signal(lambda_handler(EmptyDict, {}, jwt_rejects).result)
        /\ Len(log) = 2 /\ log[2].line = 41

\* an expired token: validate_token turns it into "Token has expired", which
\* the handler logs and replaces
C12_Witness ==
    /\ pc = "done"
    /\ jwt_rejects.type = "ExpiredSignatureError"
    /\ validate_calls = << <<"b">> >>
    /\ log[2].text = "Token has expired"
    /\ IsUnauthorized(result)

\* the payloads AuthContext is declared for: roles that "," can join
WellTyped(payload) ==
    "sub" \in DOMAIN payload /\ Joinable(DictGet(payload, "roles", PyList(<< >>)))

C14_PolicyContextStrings ==
    \A i \in 1..Len(policies) :
        LET c == policies[i]
            p == c.policy
        IN  /\ p.principalId = c.principal_id
            /\ Len(p.policyDocument.Statement) = 1
            /\ p.policyDocument.Statement[1].Effect = c.effect
            /\ p.policyDocument.Statement[1].Resource = c.resource
            /\ IF c.context = << >> \/ DOMAIN c.context[1] = {}
               THEN "context" \notin DOMAIN p
               ELSE /\ "context" \in DOMAIN p
                    /\ DOMAIN p.context = DOMAIN c.context[1]
                    /\ \A k \in DOMAIN p.context :
                          /\ p.context[k].t = "str"
                          /\ c.context[1][k].t = "str" => p.context[k] = c.context[1][k]
                          /\ c.context[1][k].t = "int" =>
                                p.context[k].s = IntToStr(c.context[1][k].n)

C14_Witness ==
    \E i \in 1..Len(policies) :
        /\ policies[i].context = <<[k \in {"k1", "k2"} |->
                                      IF k = "k1" THEN PyInt(-12) ELSE PyNone]>>
        /\ policies[i].policy.context.k1 = PyStr(<<"-", "1", "2">>)
        /\ policies[i].policy.context.k2 = PyStr(<<"N", "o", "n", "e">>)
        /\ policies[i].effect = PyStr(S_Deny)

(***************************************************************************)
(* The life of a deploy unit                                               *)
(***************************************************************************)
Rank(st) == CASE st = "Declared" -> 0 [] st = "Resolved" -> 1 [] st = "Ordered" -> 2

\* C15: in every step of graph construction no unit moves back, a unit moves
\* one state at a time (Declared, Resolved, Ordered), a unit that becomes
\* Resolved has its identity and its tags, and a unit that becomes Ordered
\* depends only on units that were Ordered before the step
C15_UnitsMoveForward ==
    [][\A u \in Units :
          /\ Rank(unitState'[u]) >= Rank(unitState[u])
          /\ Rank(unitState'[u]) <= Rank(unitState[u]) + 1
          /\ (unitState[u] = "Declared" /\ unitState'[u] = "Resolved") =>
                /\ u \in DOMAIN self' /\ "company_code" \in DOMAIN self'[u]
                /\ u \in DOMAIN stackTags' /\ "Environment" \in DOMAIN stackTags'[u]
          /\ (unitState[u] = "Resolved" /\ unitState'[u] = "Ordered") =>
                \A d \in dependencies : d[1] = u => unitState[d[2]] = "Ordered"
      ]_vars

C15_Witness ==
    /\ pc = "done"
    /\ Cardinality(dependencies) = 2
    /\ order[1] = "traefik"
    /\ \A u \in Units : unitState[u] = "Ordered"

(***************************************************************************)
(* The tag set against the tag policy                                      *)
(***************************************************************************)

\* C16: when the configured environment is dev, stg or prd and
\* data_classification is absent or an allowed value, validate_tags finds
\* nothing wrong with the tags a stack was given: none of the mandatory tags
\* is missing, the values pass, the conditional tags do no harm; for stg the
\* tags are exactly the mandatory ones
C16_TagSetAccepted ==
    \A s \in DOMAIN stackTags :
        (/\ unitState[s] = "Resolved"
         /\ config["environment"] \in {S_dev, S_stg, S_prd}
         /\ DictGet(config, "data_classification", S_internal)
                \in {S_public, S_internal, S_confidential, S_restricted}) =>
            /\ validate_tags(stackTags[s]).raised = "none"
            /\ validate_tags(stackTags[s]).errors = << >>
            /\ mandatory_tags \subseteq DOMAIN stackTags[s]
            /\ config["environment"] = S_stg => DOMAIN stackTags[s] = mandatory_tags

C16_Witness ==
    \E s \in DOMAIN stackTags :
        /\ unitState[s] = "Resolved"
        /\ config["environment"] = S_prd
        /\ {"SLA", "CriticalityLevel"} \subseteq DOMAIN stackTags[s]
        /\ stackTags[s]["DataClassification"] = S_confidential
        /\ validate_tags(stackTags[s]).errors = << >>

(***************************************************************************)
(* Names across the stacks                                                 *)
(***************************************************************************)

\* the resource names of the stacks constructed so far, stack after stack
RECURSIVE NamesOf(_)
NamesOf(stacks) ==
    IF Len(stacks) = 0 THEN << >>
    ELSE resourceNames[Head(stacks)] \o NamesOf(Tail(stacks))

Distinct(seq) == \A i \in 1..Len(seq) : \A j \in 1..Len(seq) : i # j => seq[i] # seq[j]

\* C17: for one configuration no two resources of the layer, compute and
\* edge-proxy stacks have the same name, and no two stacks the same
\* identifier; the identifier of a stack is <company_code>-<env>-<purpose>-stack
C17_NamesPairwiseDistinct ==
    /\ Distinct(NamesOf(constructed))
    /\ Distinct([i \in 1..Len(constructed) |-> self[constructed[i]]["construct_id"]])
    /\ \A i \in 1..Len(constructed) :
          self[constructed[i]]["construct_id"] =
              config["company_code"] \o Dash \o env \o Dash
                  \o <<S_layer, S_lambda, S_traefik>>[i] \o Dash \o S_stack

C17_Witness ==
    /\ pc = "done"
    /\ constructed = <<"layer", "lambda", "traefik">>
    /\ Len(NamesOf(constructed)) = 10
    /\ config["company_code"] = S_v_x

(***************************************************************************)
(* Supporting properties                                                   *)
(***************************************************************************)

\* app.py never gets past the TraefikStack(...) call of lines 52-61
AppTailUnreached == pc \notin {"dep_traefik", "synth", "emit", "done"}

\* the graph builder emits every unit at most once and after the units it
\* depends on, and hands off a plan that holds every unit
EmittedInDependencyOrder ==
    /\ \A i \in 1..Len(order) : \A j \in 1..Len(order) :
          /\ (i # j => order[i] # order[j])
          /\ (<<order[i], order[j]>> \in dependencies => j < i)
    /\ (pc = "done" => {order[i] : i \in 1..Len(order)} = Units)

====
